---- MODULE Spec2Model ----
(***************************************************************************)
(* Monte-Carlo pricing of a down-and-out Asian barrier option, as run by   *)
(* the notebook in cuda_processing_example: one draw buffer, three         *)
(* kernels (cpu_barrier_option, cpu_multicore_barrier_option,              *)
(* numba_gpu_barrier_option) and output.mean() after each of them.         *)
(*                                                                         *)
(* Floating-point values are modelled as decimal fixed-point numbers with  *)
(* two fractional digits: the integer v stands for v / SCALE.  Every       *)
(* multiplication and division rounds its result to the nearest            *)
(* representable value, as a floating-point operation does.                *)
(***************************************************************************)
EXTENDS Integers, Sequences, FiniteSets

VARIABLES
    params,      \* T, K, B, S0, sigma, mu, r, N_STEPS, N_PATHS
    randoms,     \* the draw buffer randoms_cpu / randoms_gpu (0-based)
    output,      \* the array bound to the name `output`
    cell,        \* the notebook cell (or kernel call) the driver is at
    units,       \* the execution units of the kernel that is running
    claimed,     \* prange: the path indices already handed to a worker
    launch,      \* gpu launch configuration [gridDim, blockDim]
    exp_payoff,  \* per strategy, the value output.mean() returned
    result,      \* per strategy, the buffer the kernel left behind
    ran,         \* the strategies whose kernel has returned
    hist,        \* per strategy and path: what the path's run did
    err          \* per strategy, the exception the kernel call raised

vars == <<params, randoms, output, cell, units, claimed, launch,
          exp_payoff, result, ran, hist, err>>

-----------------------------------------------------------------------------
(* Bounds of the model *)

MaxPaths == 3
MaxSteps == 3
MaxDraws == 6
MaxWorkers == 2
MaxUnits == 3
MaxCalls == 3
MaxBlocks == 2

-----------------------------------------------------------------------------
(* Rounding arithmetic *)

SCALE == 10 * 10

One == SCALE

Float(n) == n * SCALE

Abs(a) == IF a >= 0 THEN a ELSE -a

Sign(a) == IF a >= 0 THEN 1 ELSE -1

\* a / b for b > 0, rounded to the nearest integer (ties away from zero)
RoundDiv(a, b) == Sign(a) * ((2 * Abs(a) + b) \div (2 * b))

Mul(a, b) == RoundDiv(a * b, SCALE)

Div(a, b) == RoundDiv(a * SCALE, b)

\* float / int, as in mu*T/N_STEPS
DivInt(a, n) == RoundDiv(a, n)

\* the greatest y in lo..hi with (y - 1/2)^2 <= v
RECURSIVE Bisect(_, _, _)
Bisect(v, lo, hi) ==
    IF lo >= hi THEN lo
    ELSE LET mid == (lo + hi + 1) \div 2
         IN  IF (2 * mid - 1) * (2 * mid - 1) <= 4 * v
             THEN Bisect(v, mid, hi)
             ELSE Bisect(v, lo, mid - 1)

\* math.sqrt: the representable value nearest to the square root
Sqrt(x) == Bisect(x * SCALE, 0, x + SCALE)

RECURSIVE ExpTerms(_, _, _)
ExpTerms(x, term, k) ==
    IF term = 0 \/ k > 8 THEN 0
    ELSE term + ExpTerms(x, DivInt(Mul(term, x), k), k + 1)

\* math.exp: the power series, summed until the terms vanish
Exp(x) == ExpTerms(x, One, 1)

Strategies == {"cpu", "multicore", "gpu"}

-----------------------------------------------------------------------------
(* The kernels' arithmetic.  P is the record of the scalar arguments,      *)
(* d the draw buffer d_normals, L the kernel's locals tmp1, tmp2, tmp3.    *)

tmp1(P) == DivInt(Mul(P.mu, P.T), P.N_STEPS)

tmp2(P) == Exp(Mul(-P.r, P.T))

tmp3(P) == Sqrt(DivInt(P.T, P.N_STEPS))

\* what a division by zero leaves in a local of a cuda.jit kernel
NonFinite == "inf or nan"

\* the locals every kernel computes before its outer loop
Locals(P) ==
    [tmp1 |-> IF P.N_STEPS = 0 THEN NonFinite ELSE tmp1(P),
     tmp2 |-> tmp2(P),
     tmp3 |-> IF P.N_STEPS = 0 THEN NonFinite ELSE tmp3(P)]

\* the draws of one path laid out side by side
DrawIndexPathMajor(P, i, n) == i * P.N_STEPS + n

\* the flat index of the draw of path i at step n
DrawIndex(P, i, n) == i + n * P.N_PATHS

\* the draw added to the volatility term instead of scaling it
s_next_draw_added(P, L, d, i, n, s_curr) ==
    s_curr + (Mul(L.tmp1, s_curr)
              + (Mul(Mul(P.sigma, s_curr), L.tmp3) + d[DrawIndex(P, i, n)]))

\* s_curr += tmp1 * s_curr + sigma*s_curr*tmp3*d_normals[i + n * N_PATHS]
s_next(P, L, d, i, n, s_curr) ==
    s_curr + (Mul(L.tmp1, s_curr)
              + Mul(Mul(Mul(P.sigma, s_curr), L.tmp3), d[DrawIndex(P, i, n)]))

\* the weight of step n taken as 1/(n + 2)
cpu_average_late(running_average, s_curr, n) ==
    running_average
        + Mul(Div(One, Float(n) + One + One), s_curr - running_average)

\* running_average + 1.0/(n + 1.0) * (s_curr - running_average)
cpu_average(running_average, s_curr, n) ==
    running_average + Mul(Div(One, Float(n) + One), s_curr - running_average)

\* the multi-core kernel repeats the single-thread kernel's update
multicore_average(running_average, s_curr, n) ==
    running_average + Mul(Div(One, Float(n) + One), s_curr - running_average)

\* the spot counted as one of the averaged prices
gpu_average_with_spot(running_average, s_curr, n) ==
    running_average + Div(s_curr - running_average, Float(n) + One + One)

\* running_average += (s_curr - running_average) / (n + 1.0)
gpu_average(running_average, s_curr, n) ==
    running_average + Div(s_curr - running_average, Float(n) + One)

Average(k, running_average, s_curr, n) ==
    CASE k = "cpu" -> cpu_average(running_average, s_curr, n)
      [] k = "multicore" -> multicore_average(running_average, s_curr, n)
      [] k = "gpu" -> gpu_average(running_average, s_curr, n)

\* the barrier taken as a cap
BreachedAbove(P, running_average) == running_average >= P.B

\* if running_average <= B: break
Breached(P, running_average) == running_average <= P.B

\* the payoff without its floor at zero
PayoffUnfloored(P, running_average) == running_average - P.K

\* payoff = running_average - K if running_average>K else 0
Payoff(P, running_average) ==
    IF running_average > P.K THEN running_average - P.K ELSE 0

\* the value of d_s[i] = tmp2 * payoff
Discounted(P, L, running_average) == Mul(L.tmp2, Payoff(P, running_average))

\* One pass of the inner loop body at step n, from the path state st
\* (the locals s_curr, running_average and n, whether the pass left the
\* loop through the break, and the draws read, prices and averages so far).
InnerBody(k, P, L, d, i, st) ==
    LET s == s_next(P, L, d, i, st.n, st.s_curr)
        a == Average(k, st.running_average, s, st.n)
    IN  [s_curr |-> s, running_average |-> a, n |-> st.n + 1,
         brk |-> Breached(P, a),
         reads |-> Append(st.reads, DrawIndex(P, i, st.n)),
         prices |-> Append(st.prices, s),
         avgs |-> Append(st.avgs, a)]

\* s_curr = S0; running_average = 0.0
PathStart(P) ==
    [s_curr |-> P.S0, running_average |-> 0, n |-> 0, brk |-> FALSE,
     reads |-> <<>>, prices |-> <<>>, avgs |-> <<>>]

\* the inner loop without its break
LoopOverNoBreak(P, st) == st.n >= P.N_STEPS

\* for n in range(N_STEPS): ... break
LoopOver(P, st) == st.brk \/ st.n >= P.N_STEPS

RECURSIVE InnerLoop(_, _, _, _, _, _)
InnerLoop(k, P, L, d, i, st) ==
    IF LoopOver(P, st) THEN st
    ELSE InnerLoop(k, P, L, d, i, InnerBody(k, P, L, d, i, st))

\* the whole body of the outer loop for path i, up to the store
RunPath(k, P, L, d, i) == InnerLoop(k, P, L, d, i, PathStart(P))

\* what hist keeps of a finished path
Done(st, value, w) ==
    [A |-> st.running_average, s |-> st.s_curr, steps |-> st.n,
     brk |-> st.brk, reads |-> st.reads, prices |-> st.prices,
     avgs |-> st.avgs, value |-> value, writes |-> w]

NoRun == [A |-> 0, s |-> 0, steps |-> 0, brk |-> FALSE, reads |-> <<>>,
          prices |-> <<>>, avgs |-> <<>>, value |-> 0, writes |-> 0]

-----------------------------------------------------------------------------
(* Inputs *)

\* T = 1.0, K = 110.0, B = 100.0, S0 = 120.0, sigma = 0.35, mu = 0.1,
\* r = 0.05
NotebookScalars ==
    [T |-> 100, K |-> 11000, B |-> 10000, S0 |-> 12000, sigma |-> 35,
     mu |-> 10, r |-> 5]

\* the scalar arguments the kernels are called with
Scalars ==
    [T : {100}, K : {9000, 11000}, B : {10000}, S0 : {9500, 10500},
     sigma : {35}, mu : {0, 10}, r : {5}]

WithCounts(sc, steps, paths) ==
    [T |-> sc.T, K |-> sc.K, B |-> sc.B, S0 |-> sc.S0, sigma |-> sc.sigma,
     mu |-> sc.mu, r |-> sc.r, N_STEPS |-> steps, N_PATHS |-> paths]

\* the draws a buffer is made of: one standard deviation down or up
DrawVals == {-100, 100}

\* the draws of the buffers the kernels are called with directly
KernelDrawVals == {-100, 0, 100}

\* np.zeros(n)
Zeros(n) == [j \in 0..(n - 1) |-> 0]

\* the buffers cupy.random.normal(0, 1, n) can return
Buffers(n) == [0..(n - 1) -> DrawVals] \cup {Zeros(n)}

\* a buffer with one draw more than buf
Longer(buf) ==
    [j \in 0..Cardinality(DOMAIN buf) |->
        IF j \in DOMAIN buf THEN buf[j] ELSE 0]

\* the arguments of a run of the notebook
NotebookArgs ==
    {WithCounts(NotebookScalars, steps, paths) :
        steps \in 1..MaxSteps,
        paths \in 1..MaxPaths}

Sized(P) == P.N_PATHS * P.N_STEPS <= MaxDraws

NoUnits == [u \in {} |-> 0]

NoLaunch == [gridDim |-> 0, blockDim |-> 0]

FreshHist(n) == [k \in Strategies |-> [i \in 0..(n - 1) |-> NoRun]]

Init ==
    /\ params \in {P \in NotebookArgs : Sized(P)}
    /\ randoms \in Buffers(params.N_PATHS * params.N_STEPS)
    /\ output = Zeros(params.N_PATHS)
    /\ cell = "cpu_call"
    /\ units = NoUnits
    /\ claimed = {}
    /\ launch = NoLaunch
    /\ exp_payoff = [k \in Strategies |-> 0]
    /\ result = [k \in Strategies |-> Zeros(params.N_PATHS)]
    /\ ran = {}
    /\ hist = FreshHist(params.N_PATHS)
    /\ err = [k \in Strategies |-> "none"]

-----------------------------------------------------------------------------
(* Execution units.  A unit is at the head of the outer loop ("outer"),    *)
(* inside the inner loop ("inner"), at the payoff and store ("store") or   *)
(* past the outer loop ("done").                                           *)

Unit(first) ==
    [pc |-> "outer", i |-> -1, next |-> first, st |-> PathStart(params),
     count |-> 0, L |-> Locals(params)]

Running(k) == cell = k \o "_run"

\* the unit starts path i; the loop variable will next be nxt
Enter(u, i, nxt) ==
    units' = [units EXCEPT ![u] =
                 [pc |-> IF LoopOver(params, PathStart(params))
                         THEN "store" ELSE "inner",
                  i |-> i, next |-> nxt, st |-> PathStart(params),
                  count |-> @.count + 1, L |-> @.L]]

Leave(u) == units' = [units EXCEPT ![u].pc = "done"]

\* one iteration of  for n in range(N_STEPS)
Inner(k, u) ==
    /\ Running(k)
    /\ units[u].pc = "inner"
    /\ LET st == InnerBody(k, params, units[u].L, randoms, units[u].i,
                           units[u].st)
       IN  units' = [units EXCEPT ![u].st = st,
                                  ![u].pc = IF LoopOver(params, st)
                                            THEN "store" ELSE "inner"]
    /\ UNCHANGED <<params, randoms, output, cell, claimed, launch,
                   exp_payoff, result, ran, hist, err>>

\* the discounted payoff stored into the draw buffer instead of d_s
StoreIntoDraws(k, u) ==
    /\ Running(k)
    /\ units[u].pc = "store"
    /\ LET i == units[u].i
           v == Discounted(params, units[u].L, units[u].st.running_average)
       IN  /\ randoms' = [randoms EXCEPT ![i] = v]
           /\ hist' = [hist EXCEPT ![k][i] =
                          Done(units[u].st, v, @.writes + 1)]
    /\ units' = [units EXCEPT ![u].pc = "outer"]
    /\ UNCHANGED <<params, output, cell, claimed, launch, exp_payoff,
                   result, ran, err>>

\* the store held back until every unit of the kernel is at its store
StoreAfterBarrier(k, u) ==
    /\ Running(k)
    /\ units[u].pc = "store"
    /\ \A v \in DOMAIN units : units[v].pc = "store"
    /\ LET i == units[u].i
           v == Discounted(params, units[u].L, units[u].st.running_average)
       IN  /\ output' = [output EXCEPT ![i] = v]
           /\ hist' = [hist EXCEPT ![k][i] =
                          Done(units[u].st, v, @.writes + 1)]
    /\ units' = [units EXCEPT ![u].pc = "outer"]
    /\ UNCHANGED <<params, randoms, cell, claimed, launch, exp_payoff,
                   result, ran, err>>

\* payoff = ...; d_s[i] = tmp2 * payoff
Store(k, u) ==
    /\ Running(k)
    /\ units[u].pc = "store"
    /\ LET i == units[u].i
           v == Discounted(params, units[u].L, units[u].st.running_average)
       IN  /\ output' = [output EXCEPT ![i] = v]
           /\ hist' = [hist EXCEPT ![k][i] =
                          Done(units[u].st, v, @.writes + 1)]
    /\ units' = [units EXCEPT ![u].pc = "outer"]
    /\ UNCHANGED <<params, randoms, cell, claimed, launch, exp_payoff,
                   result, ran, err>>

AllDone == \A u \in DOMAIN units : units[u].pc = "done"

\* the kernel call of strategy k has returned: the driver goes on
Returned(k) ==
    /\ cell' = k \o "_mean"
    /\ result' = [result EXCEPT ![k] = output]
    /\ ran' = ran \cup {k}

Sum(buf) ==
    LET RECURSIVE Over(_, _)
        Over(lo, hi) ==
            IF lo > hi THEN 0
            ELSE IF lo = hi THEN buf[lo]
            ELSE Over(lo, (lo + hi) \div 2) + Over((lo + hi) \div 2 + 1, hi)
    IN  Over(0, Cardinality(DOMAIN buf) - 1)

\* output.mean()
Mean(buf) == DivInt(Sum(buf), Cardinality(DOMAIN buf))

\* exp_payoff = output.mean()
ReadMean(k, nextcell) ==
    /\ cell = k \o "_mean"
    /\ exp_payoff' = [exp_payoff EXCEPT ![k] = Mean(output)]
    /\ cell' = nextcell
    /\ UNCHANGED <<params, randoms, output, units, claimed, launch, result,
                   ran, hist, err>>

-----------------------------------------------------------------------------
(* Single-thread CPU *)

cpu_call ==
    /\ cell = "cpu_call"
    /\ units' = [u \in {0} |-> Unit(0)]
    /\ cell' = "cpu_run"
    /\ UNCHANGED <<params, randoms, output, claimed, launch, exp_payoff,
                   result, ran, hist, err>>

\* for i in range(N_PATHS)
cpu_outer(u) ==
    /\ Running("cpu")
    /\ units[u].pc = "outer"
    /\ IF units[u].next < params.N_PATHS
       THEN Enter(u, units[u].next, units[u].next + 1)
       ELSE Leave(u)
    /\ UNCHANGED <<params, randoms, output, cell, claimed, launch,
                   exp_payoff, result, ran, hist, err>>

cpu_inner(u) == Inner("cpu", u)

cpu_store(u) == Store("cpu", u)

cpu_return ==
    /\ Running("cpu")
    /\ AllDone
    /\ Returned("cpu")
    /\ UNCHANGED <<params, randoms, output, units, claimed, launch,
                   exp_payoff, hist, err>>

cpu_mean == ReadMean("cpu", "multicore_call")

-----------------------------------------------------------------------------
(* Multi-thread CPU *)

multicore_call ==
    /\ cell = "multicore_call"
    /\ \E w \in 1..MaxWorkers : units' = [u \in 0..(w - 1) |-> Unit(0)]
    /\ claimed' = {}
    /\ cell' = "multicore_run"
    /\ UNCHANGED <<params, randoms, output, launch, exp_payoff, result, ran,
                   hist, err>>

\* the iterations of prange(N_PATHS) a worker may still be given
Unclaimed == (0..(params.N_PATHS - 1)) \ claimed

\* for i in prange(N_PATHS): every iteration is given to one worker
multicore_outer(u) ==
    /\ Running("multicore")
    /\ units[u].pc = "outer"
    /\ IF Unclaimed # {}
       THEN \E i \in Unclaimed :
                /\ Enter(u, i, 0)
                /\ claimed' = claimed \cup {i}
       ELSE Leave(u) /\ UNCHANGED claimed
    /\ UNCHANGED <<params, randoms, output, cell, launch, exp_payoff,
                   result, ran, hist, err>>

multicore_inner(u) == Inner("multicore", u)

multicore_store(u) == Store("multicore", u)

\* the call returns when the parallel loop has been joined
multicore_return ==
    /\ Running("multicore")
    /\ AllDone
    /\ Returned("multicore")
    /\ UNCHANGED <<params, randoms, output, units, claimed, launch,
                   exp_payoff, hist, err>>

multicore_mean == ReadMean("multicore", "gpu_launch")

-----------------------------------------------------------------------------
(* GPU *)

\* number_of_threads = 256
number_of_threads == 256

\* the block count without its rounding up
number_of_blocks_floor(N_PATHS, threads) == N_PATHS \div threads

\* number_of_blocks = (N_PATHS-1) // number_of_threads + 1
number_of_blocks(N_PATHS, threads) == (N_PATHS - 1) \div threads + 1

\* ii = cuda.threadIdx.x + cuda.blockIdx.x * cuda.blockDim.x
ThreadIndex(threadIdx, blockIdx, blockDim) == threadIdx + blockIdx * blockDim

\* a stride of one block instead of the whole grid
StrideOfOneBlock(gridDim, blockDim) == blockDim

\* stride = cuda.gridDim.x * cuda.blockDim.x
Stride(gridDim, blockDim) == gridDim * blockDim

\* the threads of a launch, numbered block after block
Threads(gridDim, blockDim) ==
    [u \in 0..(gridDim * blockDim - 1) |->
        Unit(ThreadIndex(u % blockDim, u \div blockDim, blockDim))]

\* output = cupy.zeros(N_PATHS); numba_gpu_barrier_option[blocks, threads](...)
gpu_launch ==
    /\ cell = "gpu_launch"
    /\ \E g \in 1..MaxUnits, b \in 1..MaxUnits :
          /\ g * b <= MaxUnits
          /\ launch' = [gridDim |-> g, blockDim |-> b]
          /\ units' = Threads(g, b)
    /\ output' = Zeros(params.N_PATHS)
    /\ cell' = "gpu_run"
    /\ UNCHANGED <<params, randoms, claimed, exp_payoff, result, ran, hist,
                   err>>

\* for i in range(ii, N_PATHS, stride)
gpu_outer(u) ==
    /\ Running("gpu")
    /\ units[u].pc = "outer"
    /\ IF units[u].next < params.N_PATHS
       THEN Enter(u, units[u].next,
                  units[u].next + Stride(launch.gridDim, launch.blockDim))
       ELSE Leave(u)
    /\ UNCHANGED <<params, randoms, output, cell, claimed, launch,
                   exp_payoff, result, ran, hist, err>>

gpu_inner(u) == Inner("gpu", u)

gpu_store(u) == Store("gpu", u)

\* a synchronize that does not wait for the threads
SyncReturnsAtOnce == TRUE

\* cuda.synchronize() returns once every thread of the launch has finished
SyncReturns == AllDone

synchronize ==
    /\ Running("gpu")
    /\ SyncReturns
    /\ Returned("gpu")
    /\ UNCHANGED <<params, randoms, output, units, claimed, launch,
                   exp_payoff, hist, err>>

gpu_mean == ReadMean("gpu", "done")

-----------------------------------------------------------------------------

Next ==
    \/ cpu_call
    \/ \E u \in DOMAIN units : cpu_outer(u)
    \/ \E u \in DOMAIN units : cpu_inner(u)
    \/ \E u \in DOMAIN units : cpu_store(u)
    \/ cpu_return
    \/ cpu_mean
    \/ multicore_call
    \/ \E u \in DOMAIN units : multicore_outer(u)
    \/ \E u \in DOMAIN units : multicore_inner(u)
    \/ \E u \in DOMAIN units : multicore_store(u)
    \/ multicore_return
    \/ multicore_mean
    \/ gpu_launch
    \/ \E u \in DOMAIN units : gpu_outer(u)
    \/ \E u \in DOMAIN units : gpu_inner(u)
    \/ \E u \in DOMAIN units : gpu_store(u)
    \/ synchronize
    \/ gpu_mean

Spec == Init /\ [][Next]_vars

\* the notebook's state before the first run cell, each path having one
\* draw for all its steps (a path breaches at once or never)
FairInit ==
    /\ Init
    /\ \A j \in DOMAIN randoms : randoms[j] = randoms[j % params.N_PATHS]

\* The notebook run on a machine that keeps running: as long as a cell, a
\* worker or a thread has a step to take, a step is taken.
FairSpec == FairInit /\ [][Next]_vars /\ WF_vars(Next)

-----------------------------------------------------------------------------
(* The kernels called directly, each call one step, on arguments the      *)
(* notebook does not restrict: any counts from 0 up, and a draw buffer of  *)
(* N_PATHS*N_STEPS draws or of one draw more.                              *)

KernelArgs ==
    {WithCounts(sc, steps, paths) :
        sc \in Scalars, steps \in 0..MaxSteps, paths \in 0..MaxPaths}

KernelBuffers(n) ==
    LET exact == [0..(n - 1) -> KernelDrawVals]
    IN  exact \cup {Longer(Zeros(n))}

KernelInit ==
    /\ params \in {P \in KernelArgs : Sized(P)}
    /\ randoms \in KernelBuffers(params.N_PATHS * params.N_STEPS)
    /\ output = Zeros(params.N_PATHS)
    /\ cell = "k_cpu"
    /\ units = NoUnits
    /\ claimed = {}
    /\ launch = NoLaunch
    /\ exp_payoff = [k \in Strategies |-> 0]
    /\ result = [k \in Strategies |-> Zeros(params.N_PATHS)]
    /\ ran = {}
    /\ hist = FreshHist(params.N_PATHS)
    /\ err = [k \in Strategies |-> "none"]

\* a kernel whose store is d_s[i] += tmp2 * payoff
KernelEffectAdding(k, times, nextcell) ==
    /\ \E L \in {Locals(params)} :
       \E run \in {[i \in DOMAIN output |->
                       IF times[i] > 0
                       THEN RunPath(k, params, L, randoms, i)
                       ELSE PathStart(params)]} :
           /\ output' = [i \in DOMAIN output |->
                           IF times[i] > 0
                           THEN output[i] +
                                Discounted(params, L, run[i].running_average)
                           ELSE output[i]]
           /\ hist' = [hist EXCEPT ![k] =
                          [i \in DOMAIN output |->
                              IF times[i] > 0
                              THEN Done(run[i], output'[i],
                                        hist[k][i].writes + times[i])
                              ELSE NoRun]]
    /\ result' = [result EXCEPT ![k] = output']
    /\ ran' = ran \cup {k}
    /\ cell' = nextcell

\* The effect of a whole kernel whose units run the outer-loop body
\* times[i] times for path i.
KernelEffect(k, times, nextcell) ==
    /\ \E L \in {Locals(params)} :
       \E run \in {[i \in DOMAIN output |->
                       IF times[i] > 0
                       THEN RunPath(k, params, L, randoms, i)
                       ELSE PathStart(params)]} :
           /\ output' = [i \in DOMAIN output |->
                           IF times[i] > 0
                           THEN Discounted(params, L, run[i].running_average)
                           ELSE output[i]]
           /\ hist' = [hist EXCEPT ![k] =
                          [i \in DOMAIN output |->
                              IF times[i] > 0
                              THEN Done(run[i], output'[i],
                                        hist[k][i].writes + times[i])
                              ELSE NoRun]]
    /\ result' = [result EXCEPT ![k] = output']
    /\ ran' = ran \cup {k}
    /\ cell' = nextcell

\* tmp1 = mu*T/N_STEPS with N_STEPS = 0 in a kernel compiled by njit
Raise(k, nextcell) ==
    /\ err' = [err EXCEPT ![k] = "ZeroDivisionError"]
    /\ cell' = nextcell
    /\ UNCHANGED <<output, hist, result, ran>>

\* cpu_barrier_option(d_s, ..., d_normals, N_STEPS, N_PATHS)
call_cpu ==
    /\ cell = "k_cpu"
    /\ IF params.N_STEPS = 0
       THEN Raise("cpu", "k_multicore")
       ELSE /\ KernelEffect("cpu", [i \in DOMAIN output |-> 1],
                            "k_multicore")
            /\ UNCHANGED err
    /\ UNCHANGED <<params, randoms, units, claimed, launch, exp_payoff>>

\* cpu_multicore_barrier_option(d_s, ..., d_normals, N_STEPS, N_PATHS)
call_multicore ==
    /\ cell = "k_multicore"
    /\ IF params.N_STEPS = 0
       THEN Raise("multicore", "k_gpu")
       ELSE /\ KernelEffect("multicore", [i \in DOMAIN output |-> 1],
                            "k_gpu")
            /\ UNCHANGED err
    /\ UNCHANGED <<params, randoms, units, claimed, launch, exp_payoff>>

\* range(ii, N_PATHS, stride)
StrideRange(ii, N_PATHS, stride) ==
    {i \in 0..(N_PATHS - 1) : i >= ii /\ (i - ii) % stride = 0}

\* the threads of a launch whose stride loop reaches path i
ThreadsAt(i, gridDim, blockDim) ==
    {u \in 0..(gridDim * blockDim - 1) :
        i \in StrideRange(ThreadIndex(u % blockDim, u \div blockDim, blockDim),
                          params.N_PATHS, Stride(gridDim, blockDim))}

\* numba_gpu_barrier_option[(g,), (b,)](d_s, ..., d_normals, N_STEPS, N_PATHS)
\* A division by zero in a cuda.jit kernel raises nothing on the host; the
\* thread either goes on with the non-finite quotient or returns at once.
call_gpu ==
    /\ cell = "k_gpu"
    /\ \E g \in 1..MaxUnits, b \in 1..MaxUnits, goes_on \in BOOLEAN :
          /\ g * b <= MaxUnits
          /\ goes_on \/ params.N_STEPS = 0
          /\ launch' = [gridDim |-> g, blockDim |-> b]
          /\ KernelEffect("gpu",
                 [i \in DOMAIN output |->
                     IF goes_on THEN Cardinality(ThreadsAt(i, g, b)) ELSE 0],
                 "k_done")
    /\ UNCHANGED <<params, randoms, units, claimed, exp_payoff, err>>

KernelNext ==
    \/ call_cpu
    \/ call_multicore
    \/ call_gpu

KernelSpec == KernelInit /\ [][KernelNext]_vars

------------------------------------------------------------------------------
(* The kernels called again and again on one output buffer: the notebook
   hands the buffer the single-thread run has filled to the multicore run,
   and a cell can be run any number of times.  The paths are the longest
   ones, on which the buffers of two kernels can differ. *)

RerunInit ==
    /\ params \in {P \in NotebookArgs : Sized(P) /\ P.N_STEPS = MaxSteps}
    /\ randoms \in Buffers(params.N_PATHS * params.N_STEPS)
    /\ output = Zeros(params.N_PATHS)
    /\ cell = "r_idle"
    /\ units = NoUnits
    /\ claimed = {}
    /\ launch = NoLaunch
    /\ exp_payoff = [k \in Strategies |-> 0]
    /\ result = [k \in Strategies |-> Zeros(params.N_PATHS)]
    /\ ran = {}
    /\ hist = FreshHist(params.N_PATHS)
    /\ err = [k \in Strategies |-> "none"]

\* how many times kernel k has been called on the buffer
Calls(k) == hist[k][0].writes

\* the cells that are still to be run
CallsLeft == Calls("cpu") + Calls("multicore") + Calls("gpu") < MaxCalls

\* cpu_barrier_option(output, ...) on the buffer as it is
rerun_cpu ==
    /\ CallsLeft
    /\ KernelEffect("cpu", [i \in DOMAIN output |-> 1], "r_cpu")
    /\ UNCHANGED <<params, randoms, units, claimed, launch, exp_payoff, err>>

\* cpu_multicore_barrier_option(output, ...) on the buffer as it is
rerun_multicore ==
    /\ CallsLeft
    /\ KernelEffect("multicore", [i \in DOMAIN output |-> 1], "r_multicore")
    /\ UNCHANGED <<params, randoms, units, claimed, launch, exp_payoff, err>>

\* numba_gpu_barrier_option[(g,), (b,)](output, ...) on the buffer as it is,
\* number_of_blocks and number_of_threads being what they were before
rerun_gpu ==
    /\ CallsLeft
    /\ \E g \in 1..MaxUnits, b \in 1..MaxUnits :
          /\ g * b <= MaxUnits
          /\ launch \in {NoLaunch, [gridDim |-> g, blockDim |-> b]}
          /\ launch' = [gridDim |-> g, blockDim |-> b]
          /\ KernelEffect("gpu",
                 [i \in DOMAIN output |-> Cardinality(ThreadsAt(i, g, b))],
                 "r_gpu")
    /\ UNCHANGED <<params, randoms, units, claimed, exp_payoff, err>>

RerunNext ==
    \/ rerun_cpu
    \/ rerun_multicore
    \/ rerun_gpu

RerunSpec == RerunInit /\ [][RerunNext]_vars

------------------------------------------------------------------------------
(* The GPU run cell with the launch configuration it computes: blocks of
   number_of_threads threads, one step of one simulation step per path, the
   path counts around the multiples of the block size.  A thread runs its
   whole stride loop in one step, thread after thread. *)

\* the path counts just below, at and just above a whole number of blocks
LaunchPaths ==
    {n \in 1..(MaxBlocks * number_of_threads) :
        n % number_of_threads \in {0, 1, 2, number_of_threads - 1}}

\* a draw buffer of n draws, up and down in turn
AlternatingDraws(n) ==
    [j \in 0..(n - 1) |-> IF j % 2 = 0 THEN One ELSE -One]

LaunchInit ==
    /\ params \in {WithCounts(NotebookScalars, 1, paths) :
                      paths \in LaunchPaths}
    /\ randoms = AlternatingDraws(params.N_PATHS * params.N_STEPS)
    /\ output = Zeros(params.N_PATHS)
    /\ cell = "l_configure"
    /\ units = NoUnits
    /\ claimed = {}
    /\ launch = NoLaunch
    /\ exp_payoff = [k \in Strategies |-> 0]
    /\ result = [k \in Strategies |-> Zeros(params.N_PATHS)]
    /\ ran = {}
    /\ hist = FreshHist(params.N_PATHS)
    /\ err = [k \in Strategies |-> "none"]

\* number_of_threads = 256; number_of_blocks = ...; output = cupy.zeros(N_PATHS)
configure ==
    /\ cell = "l_configure"
    /\ launch' = [gridDim |-> number_of_blocks(params.N_PATHS,
                                               number_of_threads),
                  blockDim |-> number_of_threads]
    /\ output' = Zeros(params.N_PATHS)
    /\ cell' = "l_run"
    /\ UNCHANGED <<params, randoms, units, claimed, exp_payoff, result, ran,
                   hist, err>>

\* the number of threads of the configured launch
LaunchThreads == launch.gridDim * launch.blockDim

\* the thread that runs next
NextThread == Cardinality(DOMAIN units)

\* thread u of the launch runs the kernel:
\* for i in range(ii, N_PATHS, stride): ... d_s[i] = tmp2 * payoff
thread_run ==
    /\ cell = "l_run"
    /\ NextThread < LaunchThreads
    /\ \E u \in {NextThread} :
       \E ii \in {ThreadIndex(u % launch.blockDim, u \div launch.blockDim,
                              launch.blockDim)} :
       \E mine \in {StrideRange(ii, params.N_PATHS,
                                Stride(launch.gridDim, launch.blockDim))} :
       \E L \in {Locals(params)} :
          /\ units' = [v \in DOMAIN units \cup {u} |->
                          IF v # u THEN units[v]
                          ELSE [pc |-> "done",
                                i |-> IF mine = {} THEN -1
                                      ELSE CHOOSE i \in mine :
                                               \A j \in mine : j <= i,
                                next |-> ii + Cardinality(mine)
                                            * Stride(launch.gridDim,
                                                     launch.blockDim),
                                st |-> PathStart(params),
                                count |-> Cardinality(mine),
                                L |-> L]]
          /\ output' = [i \in DOMAIN output |->
                          IF i \in mine
                          THEN Discounted(params, L,
                                   RunPath("gpu", params, L, randoms, i)
                                       .running_average)
                          ELSE output[i]]
          /\ hist' = [hist EXCEPT !["gpu"] =
                         [i \in DOMAIN output |->
                             IF i \in mine
                             THEN Done(RunPath("gpu", params, L, randoms, i),
                                       output'[i], hist["gpu"][i].writes + 1)
                             ELSE hist["gpu"][i]]]
    /\ UNCHANGED <<params, randoms, cell, claimed, launch, exp_payoff,
                   result, ran, err>>

\* cuda.synchronize(); exp_payoff = output.mean()
launch_synchronize ==
    /\ cell = "l_run"
    /\ NextThread = LaunchThreads
    /\ result' = [result EXCEPT !["gpu"] = output]
    /\ exp_payoff' = [exp_payoff EXCEPT !["gpu"] = Mean(output)]
    /\ ran' = ran \cup {"gpu"}
    /\ cell' = "l_done"
    /\ UNCHANGED <<params, randoms, output, units, claimed, launch, hist,
                   err>>

LaunchNext ==
    \/ configure
    \/ thread_run
    \/ launch_synchronize

LaunchSpec == LaunchInit /\ [][LaunchNext]_vars

-----------------------------------------------------------------------------
(* Properties *)

Paths == 0..(params.N_PATHS - 1)

\* the arguments meet the kernels' preconditions
ValidArgs ==
    /\ params.N_PATHS >= 1
    /\ params.N_STEPS >= 1
    /\ Cardinality(DOMAIN randoms) = params.N_PATHS * params.N_STEPS

\* the call of kernel k is over, by a return or by an exception
Called(k) == k \in ran \/ err[k] # "none"

\* the number of threads of the gpu launch
UnitCount == launch.gridDim * launch.blockDim

\* the gpu kernel has been launched
Launched == cell \in {"gpu_run", "gpu_mean", "done"}

C2_StrideCoverage ==
    Launched =>
        /\ \A u \in DOMAIN units :
              units[u].pc \in {"inner", "store"} => units[u].i \in Paths
        /\ \A i \in Paths : hist["gpu"][i].writes <= 1
        /\ cell \in {"gpu_mean", "done"} =>
              /\ \A i \in Paths : hist["gpu"][i].writes = 1
              /\ \A u \in DOMAIN units :
                    \/ units[u].count = params.N_PATHS \div UnitCount
                    \/ units[u].count =
                          (params.N_PATHS + UnitCount - 1) \div UnitCount

\* C2 witness: a launch with fewer threads than paths, not dividing them,
\* has finished.
C2_Witness ==
    /\ cell = "done"
    /\ UnitCount < params.N_PATHS
    /\ params.N_PATHS % UnitCount # 0

\* two units are working on the same path at the same time
SlotShared ==
    \E u, v \in DOMAIN units :
        /\ u # v
        /\ units[u].pc \in {"inner", "store"}
        /\ units[v].pc \in {"inner", "store"}
        /\ units[u].i = units[v].i

C4_ReadAfterBarrier ==
    \A k \in {"multicore", "gpu"} :
        /\ cell = k \o "_mean" =>
              /\ \A u \in DOMAIN units : units[u].pc = "done"
              /\ \A i \in Paths :
                    /\ hist[k][i].writes >= 1
                    /\ output[i] =
                          Discounted(params, Locals(params),
                              RunPath(k, params, Locals(params), randoms,
                                      i).running_average)
        /\ (k = "multicore" /\ cell \in {"gpu_launch", "gpu_run", "gpu_mean",
                                          "done"}) =>
              exp_payoff[k] = Mean(result[k])
        /\ (k = "gpu" /\ cell = "done") =>
              /\ exp_payoff[k] = Mean(result[k])
              /\ result[k] = output

\* C4 witness: the driver is about to read the buffer of a gpu launch of
\* several threads over several paths.
C4_Witness ==
    /\ cell = "gpu_mean"
    /\ UnitCount >= 2
    /\ params.N_PATHS >= 2
    /\ params.N_STEPS >= 2

\* C5: a call with a non-positive count or a draw buffer of the wrong length
\* fails with an error before any slot is written or any draw is read.
C5_InvalidArgsFailFast ==
    \A k \in Strategies :
        (~ValidArgs /\ Called(k)) =>
            /\ err[k] # "none"
            /\ \A i \in Paths :
                  hist[k][i].writes = 0 /\ hist[k][i].reads = <<>>

\* the discount factor exp(-r*T)
DiscountFactor == Exp(Mul(-params.r, params.T))

Max(a, b) == IF a >= b THEN a ELSE b

\* the last running average the run h of a path computed
LastAverage(h) == IF h.avgs = <<>> THEN 0 ELSE h.avgs[Len(h.avgs)]

\* the first price a run of path i simulates
FirstPrice(i) ==
    s_next(params, Locals(params), randoms, i, 0, params.S0)

\* C6: a path that leaves its inner loop through the barrier break stores 0.
C6_BreachStoresZero ==
    \A k \in ran : \A i \in Paths :
        (hist[k][i].writes > 0 /\ hist[k][i].brk) => result[k][i] = 0

\* C7: the value stored for a path is exp(-r*T) * max(A - K, 0) for the last
\* running average A of the path, stored once, whether the loop ran to its
\* end or left early; it is >= 0, and 0 exactly when A <= K.
C7_SinglePayoffFormula ==
    \A k \in ran : \A i \in Paths :
        hist[k][i].writes > 0 =>
            LET h == hist[k][i]
                A == LastAverage(h)
            IN  /\ h.A = A
                /\ h.writes = 1
                /\ result[k][i] = Mul(DiscountFactor, Max(A - params.K, 0))
                /\ result[k][i] >= 0
                /\ result[k][i] = 0 <=> A <= params.K

\* C7 witness: one kernel has stored a positive value for a path that left
\* early through the break and for a path that ran all its steps.
C7_Witness ==
    \E k \in ran : \E i, j \in Paths :
        /\ hist[k][i].brk
        /\ hist[k][i].steps < params.N_STEPS
        /\ result[k][i] > 0
        /\ ~hist[k][j].brk
        /\ hist[k][j].steps = params.N_STEPS
        /\ result[k][j] > 0

\* C8 as stated: with S0 < B every path breaches at step 0 and stores
\* max(S0 - K, 0) * exp(-r*T).
C8_SpotBelowBarrier ==
    (ValidArgs /\ params.S0 < params.B) =>
        \A k \in ran : \A i \in Paths :
            /\ hist[k][i].brk
            /\ hist[k][i].steps = 1
            /\ result[k][i] =
                  Mul(DiscountFactor, Max(params.S0 - params.K, 0))

\* C8: with S0 < B a path breaches at step 0 exactly when its first
\* simulated price s1 is at or below B, and it then stores
\* max(s1 - K, 0) * exp(-r*T): the first running average is the first
\* simulated price.
C8_FirstPriceDecides ==
    (ValidArgs /\ params.S0 < params.B) =>
        \A k \in ran : \A i \in Paths :
            LET h == hist[k][i]
                s1 == FirstPrice(i)
            IN  /\ h.prices[1] = s1
                /\ h.avgs[1] = s1
                /\ (h.brk /\ h.steps = 1) <=> s1 <= params.B
                /\ s1 <= params.B =>
                      result[k][i] =
                          Mul(DiscountFactor, Max(s1 - params.K, 0))

\* C8 witness: with S0 < B, one path has breached at step 0 and stored a
\* positive value, and another has gone past step 0.
C8_Witness ==
    /\ ValidArgs
    /\ params.S0 < params.B
    /\ ran = Strategies
    /\ \E i, j \in Paths :
          /\ FirstPrice(i) <= params.B
          /\ hist["gpu"][i].steps = 1
          /\ result["gpu"][i] > 0
          /\ FirstPrice(j) > params.B
          /\ hist["gpu"][j].steps >= 2

AllDrawsZero == \A j \in DOMAIN randoms : randoms[j] = 0

\* C9: with every draw 0 and mu = 0, price and running average equal S0
\* after every step; the barrier is breached iff S0 <= B; an unbreached path
\* stores max(S0 - K, 0) * exp(-r*T).
C9_FlatPath ==
    (ValidArgs /\ AllDrawsZero /\ params.mu = 0) =>
        \A k \in ran : \A i \in Paths :
            LET h == hist[k][i]
            IN  /\ h.steps >= 1
                /\ \A m \in 1..h.steps :
                      h.prices[m] = params.S0 /\ h.avgs[m] = params.S0
                /\ h.brk <=> params.S0 <= params.B
                /\ ~h.brk =>
                      /\ h.steps = params.N_STEPS
                      /\ result[k][i] =
                            Mul(DiscountFactor,
                                Max(params.S0 - params.K, 0))

\* C9 witness: all three kernels ran several flat steps above the barrier
\* and stored a positive value.
C9_Witness ==
    /\ ValidArgs
    /\ AllDrawsZero
    /\ params.mu = 0
    /\ ran = Strategies
    /\ params.N_STEPS >= 2
    /\ params.S0 > params.B
    /\ \A k \in ran : \A i \in Paths :
          hist[k][i].steps = params.N_STEPS /\ result[k][i] > 0

KernelStep == cell' = cell /\ cell \in {"cpu_run", "multicore_run", "gpu_run"}

\* C11: no step writes the draw buffer or changes a simulation parameter,
\* and the only shared array a step of a kernel writes is the output buffer.
C11_DrawsAndParamsFrozen ==
    [][/\ randoms' = randoms
       /\ params' = params
       /\ KernelStep =>
             /\ exp_payoff' = exp_payoff
             /\ result' = result
             /\ launch' = launch
             /\ \A i \in Paths :
                   output'[i] # output[i] =>
                       \E u \in DOMAIN units :
                           units[u].pc = "store" /\ units[u].i = i]_vars

\* C11 witness: the three runs are over, each has written every slot, and
\* the draw buffer holds non-zero draws.
C11_Witness ==
    /\ cell = "done"
    /\ params.N_PATHS >= 2
    /\ \A k \in Strategies : \A i \in Paths : hist[k][i].writes = 1
    /\ \E j \in DOMAIN randoms : randoms[j] # 0

\* the buffer kernel k leaves when it is run on a buffer of zeros, L being
\* the kernel's locals
FreshRun(k, L) ==
    [i \in Paths |->
        Discounted(params, L, RunPath(k, params, L, randoms, i).running_average)]

\* the step is a call of kernel k
CallOf(k) == hist'[k] # hist[k]

\* C12: a kernel called on a buffer that holds what earlier calls left in
\* it leaves the buffer it leaves on a buffer of zeros, which is the buffer
\* its earlier call left; called twice in a row, the second call changes
\* nothing in the buffer.
C12_RerunSameBuffer ==
    [][\A k \in Strategies :
          CallOf(k) =>
              /\ \E L \in {Locals(params)} : output' = FreshRun(k, L)
              /\ k \in ran => output' = result[k]
              /\ cell = "r_" \o k => output' = output]_vars

\* C12 witness: the multicore kernel has been called a second time, on a
\* buffer the gpu kernel had filled with other values than its own.
C12_Witness ==
    /\ cell = "r_multicore"
    /\ Calls("multicore") >= 2
    /\ Calls("gpu") >= 1
    /\ result["gpu"] # result["multicore"]
    /\ output = result["multicore"]
    /\ \E i \in Paths : output[i] # 0

\* the paths kernel k has run to their store
PathsRun(k) == {i \in Paths : hist[k][i].writes > 0}

\* C13: the inner loop of a path makes exactly m updates, m being the
\* smallest step count in 1..N_STEPS after which the running average is at
\* or below B, or N_STEPS when there is none; it reads one draw and updates
\* price and average once per update, none after the first breach, and the
\* barrier test follows the average update of every step, the last included.
C13_StopsAtFirstBreach ==
    ValidArgs =>
        \A k \in ran : \A i \in PathsRun(k) :
            LET h == hist[k][i]
                m == h.steps
            IN  /\ m \in 1..params.N_STEPS
                /\ Len(h.reads) = m /\ Len(h.prices) = m /\ Len(h.avgs) = m
                /\ \A j \in 1..(m - 1) : h.avgs[j] > params.B
                /\ m < params.N_STEPS => h.avgs[m] <= params.B
                /\ h.brk <=> h.avgs[m] <= params.B
                /\ h.A = h.avgs[m]
                /\ h.s = h.prices[m]

\* C13 witness: in one run, a path left the loop at a breach after its
\* second of three steps (the first average above B), and another path ran
\* every step without a breach.
C13_Witness ==
    /\ ValidArgs
    /\ \E k \in ran :
          /\ \E i \in PathsRun(k) :
                /\ hist[k][i].brk
                /\ hist[k][i].steps > 1
                /\ hist[k][i].steps < params.N_STEPS
          /\ \E i \in PathsRun(k) :
                ~hist[k][i].brk /\ hist[k][i].steps = params.N_STEPS

\* the sum of the first n prices a run simulated
PricesSum(h, n) ==
    LET RECURSIVE Upto(_)
        Upto(j) == IF j = 0 THEN 0 ELSE h.prices[j] + Upto(j - 1)
    IN  Upto(n)

\* the arithmetic mean of the first n prices a run simulated
ArithmeticMean(h, n) == DivInt(PricesSum(h, n), n)

\* v lies between a and b
Between(v, a, b) == (a <= v /\ v <= b) \/ (b <= v /\ v <= a)

\* the moves of the average in updates 2..n of a run, each with one unit in
\* the last place, times SCALE
RoundingOfUpdates(h, n) ==
    LET RECURSIVE Upto(_)
        Upto(j) ==
            IF j <= 1 THEN 0
            ELSE Abs(h.prices[j] - h.avgs[j - 1]) + SCALE + Upto(j - 1)
    IN  Upto(n)

BreachedPaths(k) == {i \in PathsRun(k) : hist[k][i].brk}

\* C15: a path that left its inner loop through the break stores a non-zero
\* value only when K < A <= B for its last average A, which needs B > K,
\* and the value is then exp(-r*T) * (A - K); with B <= K every breached
\* path stores 0.
C15_BreachPaysBelowBarrier ==
    \A k \in ran : \A i \in BreachedPaths(k) :
        LET h == hist[k][i]
        IN  /\ h.A <= params.B
            /\ h.value = result[k][i]
            /\ h.value # 0 =>
                  /\ params.K < h.A
                  /\ params.B > params.K
                  /\ h.value = Mul(DiscountFactor, h.A - params.K)
            /\ h.A <= params.K => h.value = 0
            /\ params.B <= params.K => h.value = 0

\* C15 witness: with B > K a breached path has stored the discounted excess
\* of its average over the strike, which is not zero, next to a breached
\* path that has stored 0.
C15_Witness ==
    /\ params.B > params.K
    /\ \E k \in ran :
          /\ \E i \in BreachedPaths(k) :
                /\ result[k][i] > 0
                /\ result[k][i] = Mul(DiscountFactor, hist[k][i].A - params.K)
          /\ \E i \in BreachedPaths(k) : result[k][i] = 0

\* a step of unit u of the running kernel
UnitStep(u) ==
    \/ cpu_outer(u) \/ cpu_inner(u) \/ cpu_store(u)
    \/ multicore_outer(u) \/ multicore_inner(u) \/ multicore_store(u)
    \/ gpu_outer(u) \/ gpu_inner(u) \/ gpu_store(u)

\* no path is past its N_STEPS-th inner iteration
StepsBounded ==
    /\ \A u \in DOMAIN units : units[u].st.n <= params.N_STEPS
    /\ \A k \in Strategies : \A i \in Paths :
          hist[k][i].steps <= params.N_STEPS

\* a unit of a running kernel that is not done can take its next step,
\* whatever the other units are doing
NoUnitWaits ==
    cell \in {"cpu_run", "multicore_run", "gpu_run"} =>
        \A u \in DOMAIN units :
            units[u].pc # "done" => ENABLED UnitStep(u)

\* the three runs are over and every slot has been written by each of them
AllWritten ==
    /\ cell = "done"
    /\ ran = Strategies
    /\ \A k \in Strategies : \A i \in Paths : hist[k][i].writes = 1

\* C16: every run terminates.  No path makes more than N_STEPS inner
\* iterations, no unit waits for another unit, the run is never stuck
\* before its end, and when steps keep being taken every unit gets done
\* and every slot of the output has been written.
C16_Terminates ==
    /\ [](StepsBounded /\ NoUnitWaits /\ (cell # "done" => ENABLED Next))
    /\ <>[]AllWritten

\* C16 witness: the three runs are over with all slots written, the
\* parallel kernels having run with more than one unit and more paths than
\* units.
C16_Witness ==
    /\ AllWritten
    /\ params.N_STEPS >= 2
    /\ 1 < UnitCount /\ UnitCount < params.N_PATHS

\* C17: the draw of path i at step n is read at the flat index
\* i + n * N_PATHS, which lies in 0..N_PATHS*N_STEPS-1, inside the draw
\* buffer, and no two (path, step) pairs read the same index.
C17_DrawIndexInRange ==
    ValidArgs =>
        \A k \in ran :
            /\ \A i \in PathsRun(k) :
                  \A n \in 0..(hist[k][i].steps - 1) :
                      LET j == hist[k][i].reads[n + 1]
                      IN  /\ j = i + n * params.N_PATHS
                          /\ j \in 0..(params.N_PATHS * params.N_STEPS - 1)
                          /\ j \in DOMAIN randoms
            /\ \A i1, i2 \in PathsRun(k) :
                  \A n1 \in 0..(hist[k][i1].steps - 1) :
                      \A n2 \in 0..(hist[k][i2].steps - 1) :
                          hist[k][i1].reads[n1 + 1] = hist[k][i2].reads[n2 + 1]
                              => (i1 = i2 /\ n1 = n2)

\* C17 witness: a kernel has run several paths of several steps to their
\* last step, reading every index of the draw buffer.
C17_Witness ==
    /\ ValidArgs
    /\ params.N_PATHS >= 2
    /\ params.N_STEPS >= 2
    /\ \E k \in ran :
          /\ PathsRun(k) = Paths
          /\ \A i \in Paths : hist[k][i].steps = params.N_STEPS
          /\ {hist[k][i].reads[n] : i \in Paths, n \in 1..params.N_STEPS}
                = DOMAIN randoms

\* C18: with number_of_threads = 256 and number_of_blocks =
\* (N_PATHS-1)//256 + 1, the launch has ceil(N_PATHS/256) blocks and U
\* threads with N_PATHS <= U < N_PATHS + 256; every thread runs the body of
\* its stride loop at most once, thread ii < N_PATHS for path ii and no
\* other, and a thread ii >= N_PATHS not at all: it reads and writes
\* nothing.
C18_OneThreadPerPath ==
    cell \in {"l_run", "l_done"} =>
        /\ launch.blockDim = number_of_threads
        /\ (launch.gridDim - 1) * number_of_threads < params.N_PATHS
        /\ params.N_PATHS <= launch.gridDim * number_of_threads
        /\ params.N_PATHS <= LaunchThreads
        /\ LaunchThreads < params.N_PATHS + number_of_threads
        /\ \A ii \in DOMAIN units :
              /\ units[ii].count <= 1
              /\ ii < params.N_PATHS =>
                    /\ units[ii].count = 1
                    /\ units[ii].i = ii
              /\ ii >= params.N_PATHS =>
                    /\ units[ii].count = 0
                    /\ units[ii].i = -1
        /\ \A i \in Paths :
              /\ hist["gpu"][i].writes = IF i \in DOMAIN units THEN 1 ELSE 0
              /\ Len(hist["gpu"][i].reads) <= hist["gpu"][i].writes
        /\ cell = "l_done" => \A i \in Paths : hist["gpu"][i].writes = 1

\* C18 witness: a launch of two blocks for a path count that is not a
\* multiple of the block size is over; its last threads had no path.
C18_Witness ==
    /\ cell = "l_done"
    /\ launch.gridDim = 2
    /\ params.N_PATHS % number_of_threads # 0
    /\ \E ii \in DOMAIN units : ii >= params.N_PATHS /\ units[ii].count = 0
    /\ \E i \in Paths : output[i] # 0

====
